---------------------------- MODULE Spec2Model ----------------------------
(***************************************************************************)
(* A model of four parts of jasl/squid-sdk:                                *)
(*                                                                         *)
(*   - the field selector of the EVM archive client                        *)
(*     (toFieldSelection, mergeDefaultFields),                             *)
(*   - the EVM archive client (EvmArchive.getFinalizedBatch and the        *)
(*     gateway mapper mapGatewayBlock),                                    *)
(*   - the configuration surface of EvmBatchProcessor and its request      *)
(*     merger (getBatchRequests, concatRequestLists),                      *)
(*   - the hot-block change log of the typeorm store (ChangeTracker,       *)
(*     rollbackBlock).                                                     *)
(*                                                                         *)
(* Each part has a specification of its own (SpecFields, SpecArchive,      *)
(* SpecMapper, SpecProc, SpecHot); the variables of the other parts stay   *)
(* at their initial values.  SpecTrack is one ChangeTracker whose          *)
(* operations are started without awaiting the previous one.               *)
(*                                                                         *)
(* JavaScript's optional values are sets with at most one element:         *)
(* None is `undefined`, Some(x) is the value x.                            *)
(***************************************************************************)
EXTENDS Integers, Sequences, FiniteSets, TLC

VARIABLES
    \* ---- field selector
    userFields,     \* the `fields` argument handed to toFieldSelection
    masks,          \* the masks toFieldSelection returned, in call order
    \* ---- EvmBatchProcessor
    requests,       \* this.requests
    procFields,     \* this.fields
    blockRange,     \* this.blockRange
    src,            \* this.src
    running,        \* this.running
    batchRequests,  \* what getBatchRequests() returned inside run()
    thrown,         \* whether the last call threw the settings error
    \* ---- EvmArchive.getFinalizedBatch
    request,        \* the BatchRequest<DataRequest> argument
    queries,        \* the bodies POSTed to /query, in order
    response,       \* the archive's answer to the first query
    batch,          \* the returned BatchResponse (when apc = "done")
    failure,        \* the context of the error thrown (when apc = "failed")
    apc,            \* "idle" | "done" | "failed"
    \* ---- gateway mapper
    wireBlock,      \* the gw.BlockData handed to tryMapGatewayBlock
    mapped,         \* what tryMapGatewayBlock returned or threw
    \* ---- hot-block change log
    store,          \* the entity tables: table -> (id -> fields)
    hot_block,      \* {schema}.hot_block, as the sequence of heights
    hot_change_log, \* {schema}.hot_change_log, a set of ChangeRows
    tracker,        \* the ChangeTracker of the block being applied
    opsLeft,        \* store operations the handlers may still make
    snap,           \* history: height -> tables before the block was applied
    rolled,         \* history: the heights rolled back so far
    lastOp,         \* history: the last tracker call of the block and its records
    calls,          \* the track operations started and not awaited, in call order
    err             \* "none", or the error that ended the transaction

fieldVars == <<userFields, masks>>
procVars == <<requests, procFields, blockRange, src, running, batchRequests, thrown>>
archiveVars == <<request, queries, response, batch, failure, apc>>
mapperVars == <<wireBlock, mapped>>
hotVars == <<store, hot_block, hot_change_log, tracker, opsLeft, snap, rolled, lastOp,
            calls, err>>
vars == <<fieldVars, procVars, archiveVars, mapperVars, hotVars>>

\* What a step of one part leaves alone: the variables of the other parts
FieldsFrame == UNCHANGED <<procVars, archiveVars, mapperVars, hotVars>>

ProcFrame == UNCHANGED <<fieldVars, archiveVars, mapperVars, hotVars>>

ArchiveFrame == UNCHANGED <<fieldVars, procVars, mapperVars, hotVars>>

MapperFrame == UNCHANGED <<fieldVars, procVars, archiveVars, hotVars>>

HotFrame == UNCHANGED <<fieldVars, procVars, archiveVars, mapperVars>>

--------------------------------------------------------------------------
(* Optional values and sequence helpers *)

None == {}

Some(x) == {x}

The(o) == CHOOSE x \in o : TRUE

Last(s) == s[Len(s)]

Range(s) == {s[i] : i \in DOMAIN s}

RECURSIVE Flatten(_)
Flatten(ss) ==
    IF ss = <<>> THEN <<>> ELSE Head(ss) \o Flatten(Tail(ss))

\* All sequences over S of length at most n
SeqsUpTo(S, n) == UNION {[1..k -> S] : k \in 0..n}

\* The sequences of SeqsUpTo(S, n) without a repeated element
DistinctSeqs(S, n) ==
    {s \in SeqsUpTo(S, n) : \A i, j \in DOMAIN s : i # j => s[i] # s[j]}

--------------------------------------------------------------------------
(* 1. Field selector                                                       *)
(*                                                                         *)
(* A user selector maps each field name to "true", "false" or "undefined"  *)
(* (a key that is absent, undefined or null: the three take the same       *)
(* branch of mergeDefaultFields).  An entry of a produced mask is "true",  *)
(* "undefined" (the key is present and holds undefined) or "absent".       *)

BlockKeys == {"number", "hash", "timestamp"}

TransactionKeys == {"index", "hash", "gas"}

LogKeys == {"index", "transactionIndex", "data"}

\* Fields['log'] also carries the relation flag `transaction`
LogSelectorKeys == LogKeys \cup {"transaction"}

UserValues == {"true", "false", "undefined"}

\* DEFAULT_FIELDS of interfaces/data, over the modelled field names
DEFAULT_FIELDS ==
    [block |-> [k \in BlockKeys |-> "true"],
     transaction |-> [k \in TransactionKeys |-> IF k = "hash" THEN "true" ELSE "absent"],
     log |-> [k \in LogKeys |-> IF k = "data" THEN "true" ELSE "absent"]]

\* The type Fields, restricted to the modelled field names
FieldsDomain ==
    [block : [BlockKeys -> UserValues],
     transaction : [TransactionKeys -> UserValues],
     log : [LogSelectorKeys -> UserValues]]

\* `selection?` is a selector or None; a key outside the selector is absent
SelectorEntry(selection, key) ==
    IF selection = None THEN "absent"
    ELSE IF key \in DOMAIN The(selection) THEN The(selection)[key]
    ELSE "absent"

\* Only "true" and "false" pass `selection[key] != null`
mergeDefaultFieldsIgnoreFalse(defaults, selection) ==
    [key \in DOMAIN defaults |->
        IF SelectorEntry(selection, key) = "true" THEN "true" ELSE defaults[key]]

mergeDefaultFields(defaults, selection) ==
    [key \in DOMAIN defaults |->
        LET v == SelectorEntry(selection, key) IN
        IF v \in {"true", "false"}
        THEN IF v = "true" THEN "true" ELSE "undefined"
        ELSE defaults[key]]

\* fields?.block, fields?.transaction
EntitySelector(fields, entity) ==
    IF fields = None THEN None ELSE Some(The(fields)[entity])

\* let {transaction, ...logFields} = fields?.log || {}
LogFieldsOf(fields) ==
    IF fields = None THEN None
    ELSE Some([k \in DOMAIN The(fields).log \ {"transaction"} |-> The(fields).log[k]])

\* The always-on fields written first and the merged fields spread over them
toFieldSelectionAlwaysOnFirst(fields) ==
    LET over(merged, k) == IF merged[k] = "absent" THEN "true" ELSE merged[k]
        b == mergeDefaultFields(DEFAULT_FIELDS.block, EntitySelector(fields, "block"))
        t == mergeDefaultFields(DEFAULT_FIELDS.transaction,
                                EntitySelector(fields, "transaction"))
        l == mergeDefaultFields(DEFAULT_FIELDS.log, LogFieldsOf(fields))
    IN  [block |-> [k \in BlockKeys |->
                        IF k \in {"hash", "number"} THEN over(b, k) ELSE b[k]],
         transaction |-> [k \in TransactionKeys |->
                        IF k = "index" THEN over(t, k) ELSE t[k]],
         log |-> [k \in LogKeys |->
                        IF k \in {"index", "transactionIndex"} THEN over(l, k) ELSE l[k]]]

toFieldSelection(fields) ==
    [block |->
        [k \in BlockKeys |->
            IF k \in {"hash", "number"} THEN "true"
            ELSE mergeDefaultFields(DEFAULT_FIELDS.block, EntitySelector(fields, "block"))[k]],
     transaction |->
        [k \in TransactionKeys |->
            IF k = "index" THEN "true"
            ELSE mergeDefaultFields(DEFAULT_FIELDS.transaction,
                                    EntitySelector(fields, "transaction"))[k]],
     log |->
        [k \in LogKeys |->
            IF k \in {"index", "transactionIndex"} THEN "true"
            ELSE mergeDefaultFields(DEFAULT_FIELDS.log, LogFieldsOf(fields))[k]]]

\* The first call of the field selector, on the user's selection
ApplyFieldSelector ==
    /\ masks = <<>>
    /\ masks' = <<toFieldSelection(userFields)>>
    /\ UNCHANGED userFields
    /\ FieldsFrame

\* A further call, on the mask the previous call returned
ReapplyFieldSelector ==
    /\ Len(masks) = 1
    /\ masks' = Append(masks, toFieldSelection(Some(Last(masks))))
    /\ UNCHANGED userFields
    /\ FieldsFrame

--------------------------------------------------------------------------
(* 2. EvmBatchProcessor: configuration and request merging *)

MaxRequests == 2

MaxBlock == 2

\* String.prototype.toLowerCase on the strings of the model
toLowerCase(s) ==
    CASE s = "0xA" -> "0xa"
      [] s = "0xA9059CBB" -> "0xa9059cbb"
      [] s = "0xDDF2" -> "0xddf2"
      [] OTHER -> s

\* Range values: {from, to?}
RangeInputs ==
    {[from |-> 0, to |-> None],
     [from |-> 1, to |-> Some(1)],
     [from |-> MaxBlock, to |-> None]}

\* A `string | string[]` argument: a lone string is items of length 1, not an array
StringArg(s) == [isArray |-> FALSE, items |-> <<s>>]

ArrayArg(ss) == [isArray |-> TRUE, items |-> ss]

\* The LogOptions the model registers (without the range)
LogOptionInputs ==
    {[address |-> None, filter |-> None],
     [address |-> Some(StringArg("0xA")), filter |-> Some(<<>>)],
     [address |-> Some(ArrayArg(<<"0xA", "0xb">>)), filter |-> Some(<<"0xDDF2">>)],
     [address |-> Some(ArrayArg(<<>>)), filter |-> None]}

\* The TransactionOptions the model registers (without the range)
TransactionOptionInputs ==
    {[to |-> None, from |-> None, sighash |-> Some(StringArg("0xA9059CBB"))],
     [to |-> Some(StringArg("0xA")), from |-> Some(ArrayArg(<<"0xb">>)), sighash |-> None],
     [to |-> Some(ArrayArg(<<>>)), from |-> None, sighash |-> None]}

\* A Fields value in which nothing is set
NoSelection ==
    [block |-> [k \in BlockKeys |-> "undefined"],
     transaction |-> [k \in TransactionKeys |-> "undefined"],
     log |-> [k \in LogSelectorKeys |-> "undefined"]]

\* The Fields values the model passes to setFields
FieldsInputs ==
    {[NoSelection EXCEPT !.log["transaction"] = "true"],
     [NoSelection EXCEPT !.block["timestamp"] = "false", !.transaction["gas"] = "true"]}

DataSourceInputs ==
    {[archive |-> Some("https://archive"), chain |-> None],
     [archive |-> None, chain |-> Some("wss://node")]}

EmptyRequest ==
    [includeAllBlocks |-> None, logs |-> None, transactions |-> None, fields |-> None]

toRequestListKeepCase(val) ==
    IF val = None THEN None
    ELSE IF Len(The(val).items) = 0 THEN None
    ELSE Some(The(val).items)

toRequestList(val) ==
    IF val = None THEN None
    ELSE LET list == The(val).items IN
         IF Len(list) = 0 THEN None
         ELSE Some([i \in DOMAIN list |-> toLowerCase(list[i])])

\* The faulty variant that returns the empty result list as it is
concatRequestListsKeepEmpty(a, b) ==
    Some((IF a = None THEN <<>> ELSE The(a)) \o (IF b = None THEN <<>> ELSE The(b)))

concatRequestLists(a, b) ==
    LET result == (IF a # None THEN The(a) ELSE <<>>) \o (IF b # None THEN The(b) ELSE <<>>)
    IN  IF Len(result) = 0 THEN None ELSE Some(result)

\* The faulty variant that takes includeAllBlocks from the first request only
mergeFirstFlag(a, b) ==
    [includeAllBlocks |-> IF a.includeAllBlocks = Some(TRUE) THEN Some(TRUE) ELSE None,
     logs |-> concatRequestLists(a.logs, b.logs),
     transactions |-> concatRequestLists(a.transactions, b.transactions),
     fields |-> None]

\* the `merge` callback of getBatchRequests
merge(a, b) ==
    [includeAllBlocks |->
        IF a.includeAllBlocks = Some(TRUE) \/ b.includeAllBlocks = Some(TRUE)
        THEN Some(TRUE) ELSE None,
     logs |-> concatRequestLists(a.logs, b.logs),
     transactions |-> concatRequestLists(a.transactions, b.transactions),
     fields |-> None]

Covers(range, h) ==
    /\ range.from <= h
    /\ range.to = None \/ h <= The(range.to)

\* Every `to` of the model is at most MaxBlock: the heights above MaxBlock are
\* covered by the same requests as OpenTail, which stands for all of them
OpenTail == MaxBlock + 1

CoveringRequests(reqs, h) == {i \in DOMAIN reqs : Covers(reqs[i].range, h)}

RECURSIVE MergeAll(_, _, _)
MergeAll(reqs, ids, acc) ==
    IF ids = {} THEN acc
    ELSE LET i == CHOOSE x \in ids : \A y \in ids : x <= y
         IN  MergeAll(reqs, ids \ {i}, merge(acc, reqs[i].request))

\* The request of a segment covered by `ids`: the one request, or the merge of all
SegmentRequest(reqs, ids) ==
    LET first == CHOOSE x \in ids : \A y \in ids : x <= y
    IN  IF Cardinality(ids) = 1 THEN reqs[first].request
        ELSE MergeAll(reqs, ids \ {first}, reqs[first].request)

SegmentEnd(reqs, h) ==
    CHOOSE e \in h..OpenTail :
        /\ \A x \in h..e : CoveringRequests(reqs, x) = CoveringRequests(reqs, h)
        /\ e = OpenTail \/ CoveringRequests(reqs, e + 1) # CoveringRequests(reqs, h)

RECURSIVE SegmentsFrom(_, _)
SegmentsFrom(reqs, h) ==
    IF h > OpenTail THEN <<>>
    ELSE LET e == SegmentEnd(reqs, h)
             ids == CoveringRequests(reqs, h)
         IN  IF ids = {} THEN SegmentsFrom(reqs, e + 1)
             ELSE <<[range |-> [from |-> h,
                                to |-> IF e = OpenTail THEN None ELSE Some(e)],
                     request |-> SegmentRequest(reqs, ids)]>>
                  \o SegmentsFrom(reqs, e + 1)

\* mergeBatchRequests of util-internal-processor-tools: the same heights, no two
\* ranges overlapping, each range with the union of the requests covering it
mergeBatchRequests(reqs) ==
    IF Len(reqs) <= 1 THEN reqs ELSE SegmentsFrom(reqs, 0)

RangeEnd(range) == IF range.to = None THEN OpenTail ELSE The(range.to)

\* applyRangeBound of util-internal-processor-tools: drop what lies outside the
\* bound, cut what overlaps it
applyRangeBound(reqs, bound) ==
    IF bound = None THEN reqs
    ELSE LET b == The(bound)
             lo(r) == IF r.from >= b.from THEN r.from ELSE b.from
             hi(r) == IF RangeEnd(r) <= RangeEnd(b) THEN r.to ELSE b.to
             keep(r) == lo(r) <= (IF hi(r) = None THEN OpenTail ELSE The(hi(r)))
             cut(req) == [req EXCEPT !.range = [from |-> lo(req.range), to |-> hi(req.range)]]
         IN  [i \in 1..Cardinality({j \in DOMAIN reqs : keep(reqs[j].range)}) |->
                 cut(reqs[CHOOSE j \in DOMAIN reqs :
                        /\ keep(reqs[j].range)
                        /\ Cardinality({k \in 1..j : keep(reqs[k].range)}) = i])]

\* The faulty variant that leaves the merged requests without the processor's fields
getBatchRequestsNoFields ==
    applyRangeBound(mergeBatchRequests(requests), blockRange)

getBatchRequests ==
    LET merged == mergeBatchRequests(requests)
        withFields ==
            IF procFields # None
            THEN [i \in DOMAIN merged |-> [merged[i] EXCEPT !.request.fields = procFields]]
            ELSE merged
    IN  applyRangeBound(withFields, blockRange)

\* The faulty variant that never throws
assertNotRunningNever == TRUE

\* assertNotRunning(): the call throws when processing has started
assertNotRunning == ~running

Throw ==
    /\ running
    /\ thrown' = TRUE
    /\ UNCHANGED <<requests, procFields, blockRange, src, running, batchRequests>>
    /\ ProcFrame

\* this.add(request, range)
add(req, range) ==
    requests' = Append(requests,
                       [range |-> IF range # None THEN The(range) ELSE [from |-> 0, to |-> None],
                        request |-> req])

setFields(f) ==
    \/ /\ assertNotRunning
       /\ procFields' = Some(f)
       /\ UNCHANGED <<requests, blockRange, src, running, batchRequests, thrown>>
       /\ ProcFrame
    \/ Throw

addLog(options, range) ==
    \/ /\ assertNotRunning
       /\ Len(requests) < MaxRequests
       /\ add([EmptyRequest EXCEPT !.logs =
                  Some(<<[address |-> toRequestList(options.address),
                          filter |-> IF options.filter # None /\ Len(The(options.filter)) # 0
                                     THEN options.filter ELSE None]>>)],
              range)
       /\ UNCHANGED <<procFields, blockRange, src, running, batchRequests, thrown>>
       /\ ProcFrame
    \/ Throw

addTransaction(options, range) ==
    \/ /\ assertNotRunning
       /\ Len(requests) < MaxRequests
       /\ add([EmptyRequest EXCEPT !.transactions =
                  Some(<<[from |-> toRequestList(options.from),
                          to |-> toRequestList(options.to),
                          sighash |-> toRequestList(options.sighash)]>>)],
              range)
       /\ UNCHANGED <<procFields, blockRange, src, running, batchRequests, thrown>>
       /\ ProcFrame
    \/ Throw

setPrometheusPort ==
    \/ /\ assertNotRunning
       /\ UNCHANGED procVars
       /\ ProcFrame
    \/ Throw

includeAllBlocks(range) ==
    \/ /\ assertNotRunning
       /\ Len(requests) < MaxRequests
       /\ add([EmptyRequest EXCEPT !.includeAllBlocks = Some(TRUE)], range)
       /\ UNCHANGED <<procFields, blockRange, src, running, batchRequests, thrown>>
       /\ ProcFrame
    \/ Throw

setBlockRange(range) ==
    \/ /\ assertNotRunning
       /\ blockRange' = range
       /\ UNCHANGED <<requests, procFields, src, running, batchRequests, thrown>>
       /\ ProcFrame
    \/ Throw

setDataSource(ds) ==
    \/ /\ assertNotRunning
       /\ src' = Some(ds)
       /\ UNCHANGED <<requests, procFields, blockRange, running, batchRequests, thrown>>
       /\ ProcFrame
    \/ Throw

\* run(): the flag is set, then the program started by runProgram reads the data
\* source (which throws when there is none) and builds the batch requests
run ==
    \/ /\ assertNotRunning
       /\ running' = TRUE
       /\ batchRequests' = IF src = None THEN None ELSE Some(getBatchRequests)
       /\ UNCHANGED <<requests, procFields, blockRange, src, thrown>>
       /\ ProcFrame
    \/ Throw

--------------------------------------------------------------------------
(* 3. Gateway mapper: wire blocks into FullBlockData *)

MaxTxIndex == 2

MaxTxs == 2

MaxLogIndex == 1

MaxLogs == 2

TxIndexes == 1..MaxTxIndex

LogIndexes == 0..MaxLogIndex

\* gw.Transaction and gw.Log, with the always-on fields
WireTransactions == [index : TxIndexes]

WireLogs == [index : LogIndexes, transactionIndex : TxIndexes]

\* The hash of the block at a height (one chain, so the height decides it)
HashOf(n) == <<"hash", n>>

\* The hex quantities a wire block header may carry in gasUsed: a well-formed
\* one and one BigInt() rejects
HexInputs == {"0x5208", "0xzz"}

\* gw.BlockData
WireBlock(n, gas, txs, logs) ==
    [block |-> [number |-> n, hash |-> HashOf(n), gasUsed |-> gas],
     transactions |-> txs,
     logs |-> logs]

\* BigInt(s) throws a SyntaxError on a string that is no number
BigIntThrows(s) == s = "0xzz"

\* formatId of util: the block's id, or an item's id with its index
formatId(height, hash, index) == <<height, hash, index>>

mapGatewayBlockHeaderThrows(b) ==
    b.gasUsed # None /\ BigIntThrows(The(b.gasUsed))

mapGatewayBlockHeader(b) ==
    [id |-> formatId(b.number, b.hash, None),
     height |-> b.number,
     hash |-> b.hash,
     gasUsed |-> b.gasUsed]

mapGatewayTransaction(blockHeight, blockHash, gtx) ==
    [id |-> formatId(blockHeight, blockHash, Some(gtx.index)),
     index |-> gtx.index]

mapGatewayLog(blockHeight, blockHash, gl) ==
    [id |-> formatId(blockHeight, blockHash, Some(gl.index)),
     index |-> gl.index,
     transactionIndex |-> gl.transactionIndex]

\* The position of an item in a block: the transaction index, a transaction
\* before its logs, the log index
ItemKey(item) ==
    IF item.kind = "transaction"
    THEN <<The(item.transaction).index, 0, 0>>
    ELSE <<The(item.log).transactionIndex, 1, The(item.log).index>>

\* blockItemOrder of util: negative, zero or positive
blockItemOrder(a, b) ==
    LET ka == ItemKey(a)
        kb == ItemKey(b)
    IN  IF ka[1] # kb[1] THEN ka[1] - kb[1]
        ELSE IF ka[2] # kb[2] THEN ka[2] - kb[2]
        ELSE ka[3] - kb[3]

\* blockItemOrder as the comparator handed to sort, on the items compared
ItemComparator(items) ==
    [p \in Range(items) \X Range(items) |-> blockItemOrder(p[1], p[2])]

\* Array.prototype.sort with a comparator: a stable sort.  An element goes
\* behind the elements that compare lower and the equal ones that came before it
sort(s, cmp) ==
    LET pos(i) == 1 + Cardinality({j \in DOMAIN s :
                        \/ cmp[<<s[j], s[i]>>] < 0
                        \/ cmp[<<s[j], s[i]>>] = 0 /\ j < i})
    IN  [p \in DOMAIN s |-> s[CHOOSE i \in DOMAIN s : pos(i) = p]]

\* txIndex after the first loop: the last transaction set under an index
TxIndexGet(txs, index) ==
    LET hits == {i \in DOMAIN txs : txs[i].index = index}
    IN  IF hits = {} THEN None
        ELSE Some(txs[CHOOSE i \in hits : \A j \in hits : j <= i])

\* The items of mapGatewayBlock before they are sorted
UnsortedItems(wire) ==
    LET header == mapGatewayBlockHeader(wire.block)
        txs == [i \in DOMAIN wire.transactions |->
                    mapGatewayTransaction(header.height, header.hash, wire.transactions[i])]
        logs == [i \in DOMAIN wire.logs |->
                    mapGatewayLog(header.height, header.hash, wire.logs[i])]
    IN  [i \in DOMAIN txs |->
            [kind |-> "transaction", log |-> None, transaction |-> Some(txs[i])]]
        \o
        [i \in DOMAIN logs |->
            [kind |-> "log", log |-> Some(logs[i]),
             transaction |-> TxIndexGet(txs, logs[i].transactionIndex)]]

\* The faulty variant that returns the items in arrival order
mapGatewayBlockUnsorted(wire) ==
    [header |-> mapGatewayBlockHeader(wire.block), items |-> UnsortedItems(wire)]

\* The faulty variant that looks the transaction up by the log's own index
mapGatewayBlockByLogIndex(wire) ==
    LET header == mapGatewayBlockHeader(wire.block)
        txs == [i \in DOMAIN wire.transactions |->
                    mapGatewayTransaction(header.height, header.hash, wire.transactions[i])]
        items == UnsortedItems(wire)
        joined == [i \in DOMAIN items |->
                    IF items[i].kind = "log"
                    THEN [items[i] EXCEPT !.transaction =
                                TxIndexGet(txs, The(items[i].log).index)]
                    ELSE items[i]]
    IN  [header |-> header,
         items |-> sort(joined, ItemComparator(joined))]

\* The faulty variant that attaches no transaction to a log item
mapGatewayBlockNoJoin(wire) ==
    LET items == UnsortedItems(wire)
        bare == [i \in DOMAIN items |->
                    IF items[i].kind = "log"
                    THEN [items[i] EXCEPT !.transaction = None]
                    ELSE items[i]]
    IN  [header |-> mapGatewayBlockHeader(wire.block),
         items |-> sort(bare, ItemComparator(bare))]

mapGatewayBlock(wire) ==
    [header |-> mapGatewayBlockHeader(wire.block),
     items |-> sort(UnsortedItems(wire), ItemComparator(UnsortedItems(wire)))]

\* addErrorContext of util-internal: the error, with the keys of the context
\* set on it.  The error of BigInt() holds none of them beforehand
addErrorContext(e, ctx) ==
    [name |-> e, blockHeight |-> ctx.blockHeight, blockHash |-> ctx.blockHash]

\* The faulty variant that swallows the mapping error and returns the block
tryMapGatewayBlockSwallow(wire) ==
    [ok |-> TRUE, block |-> Some(mapGatewayBlock(wire)), context |-> None]

\* tryMapGatewayBlock: the mapped block, or the error with the block's context
tryMapGatewayBlock(wire) ==
    IF mapGatewayBlockHeaderThrows(wire.block)
    THEN [ok |-> FALSE,
          block |-> None,
          context |-> Some(addErrorContext("SyntaxError",
                                [blockHeight |-> wire.block.number,
                                 blockHash |-> wire.block.hash]))]
    ELSE [ok |-> TRUE, block |-> Some(mapGatewayBlock(wire)), context |-> None]

\* One call of the mapper on the wire block
MapBlock ==
    /\ wireBlock # None
    /\ mapped = None
    /\ mapped' = Some(tryMapGatewayBlock(The(wireBlock)))
    /\ UNCHANGED wireBlock
    /\ MapperFrame

--------------------------------------------------------------------------
(* 4. EvmArchive.getFinalizedBatch                                         *)
(*                                                                         *)
(* The archive is outside the program.  It is taken to honour the range of *)
(* a query: nextBlock - 1 lies in fromBlock..toBlock, every returned block *)
(* lies in fromBlock..nextBlock - 1 and no height comes twice.  Which      *)
(* blocks, transactions and logs it returns, and in which order, is its    *)
(* choice.                                                                 *)

\* The request of the first query, as built from the BatchRequest
\* The faulty variant that sends the transaction projection with every log sub-query
BuildQueryLogsWithTransactions(req) ==
    LET fields == req.request.fields
        fieldSelection == toFieldSelection(fields)
        full == [block |-> fieldSelection.block,
                 transaction |-> Some(fieldSelection.transaction),
                 log |-> Some(fieldSelection.log)]
        txs == IF req.request.transactions = None THEN <<>> ELSE The(req.request.transactions)
        logs == IF req.request.logs = None THEN <<>> ELSE The(req.request.logs)
    IN  [fromBlock |-> req.range.from,
         toBlock |-> req.range.to,
         includeAllBlocks |-> req.request.includeAllBlocks = Some(TRUE),
         transactions |->
            [i \in DOMAIN txs |->
                [to |-> txs[i].to, from |-> txs[i].from, sighash |-> txs[i].sighash,
                 fieldSelection |-> [full EXCEPT !.log = None]]],
         logs |->
            [i \in DOMAIN logs |->
                [address |-> logs[i].address,
                 topics |-> IF logs[i].filter # None THEN The(logs[i].filter) ELSE <<>>,
                 fieldSelection |->
                    full]]]

BuildQuery(req) ==
    LET fields == req.request.fields
        fieldSelection == toFieldSelection(fields)
        full == [block |-> fieldSelection.block,
                 transaction |-> Some(fieldSelection.transaction),
                 log |-> Some(fieldSelection.log)]
        logTransaction ==
            fields # None /\ The(fields).log["transaction"] = "true"
        txs == IF req.request.transactions = None THEN <<>> ELSE The(req.request.transactions)
        logs == IF req.request.logs = None THEN <<>> ELSE The(req.request.logs)
    IN  [fromBlock |-> req.range.from,
         toBlock |-> req.range.to,
         includeAllBlocks |-> req.request.includeAllBlocks = Some(TRUE),
         transactions |->
            [i \in DOMAIN txs |->
                [to |-> txs[i].to, from |-> txs[i].from, sighash |-> txs[i].sighash,
                 fieldSelection |-> [full EXCEPT !.log = None]]],
         logs |->
            [i \in DOMAIN logs |->
                [address |-> logs[i].address,
                 topics |-> IF logs[i].filter # None THEN The(logs[i].filter) ELSE <<>>,
                 fieldSelection |->
                    IF logTransaction THEN full ELSE [full EXCEPT !.transaction = None]]]]

\* The query of fetchBlockHeader
HeaderQuery(height, fieldSelection) ==
    [fromBlock |-> height,
     toBlock |-> Some(height),
     includeAllBlocks |-> TRUE,
     transactions |->
        <<[to |-> None, from |-> None, sighash |-> None,
           fieldSelection |-> [block |-> fieldSelection.block,
                               transaction |-> Some(fieldSelection.transaction),
                               log |-> Some(fieldSelection.log)]]>>,
     logs |-> <<>>]

\* fetchBlockHeader after its query was answered: the asserts on the shape of
\* the data, then the header mapping
fetchBlockHeader(res) ==
    IF res = None THEN [ok |-> FALSE, header |-> None]
    ELSE IF Len(The(res).data) # 1 THEN [ok |-> FALSE, header |-> None]
    ELSE IF Len(The(res).data[1]) # 1 THEN [ok |-> FALSE, header |-> None]
    ELSE IF mapGatewayBlockHeaderThrows(The(res).data[1][1].block)
         THEN [ok |-> FALSE, header |-> None]
    ELSE [ok |-> TRUE, header |-> Some(mapGatewayBlockHeader(The(res).data[1][1].block))]

\* (a, b) => a.header.height - b.header.height
ByHeight(a, b) == a.header.height - b.header.height

ByHeightDescending(a, b) == b.header.height - a.header.height

\* The faulty variant that orders the blocks by descending height
SortBlocksDescending(blocks) ==
    sort(blocks, [p \in Range(blocks) \X Range(blocks) |-> ByHeightDescending(p[1], p[2])])

\* batch.blocks.sort(...)
SortBlocks(blocks) ==
    sort(blocks, [p \in Range(blocks) \X Range(blocks) |-> ByHeight(p[1], p[2])])

\* The faulty variant that always asks for the last block of the range
NeedsLastBlockAlways(blocks, to) == TRUE

\* The faulty variant that never asks for the last block of the range
NeedsLastBlockNever(blocks, to) == FALSE

\* maybeLast(batch.blocks)?.header.height !== batch.range.to
NeedsLastBlock(blocks, to) ==
    IF blocks = <<>> THEN TRUE ELSE Last(blocks).header.height # to

\* getFinalizedBatch with the archive answering `res` (None: the request
\* failed) and, when the header of the last block is asked for, `headerRes`
getFinalizedBatch(res, headerRes) ==
    LET q == BuildQuery(The(request))
        fieldSelection == toFieldSelection(The(request).request.fields)
        Fail(qs, ctx) ==
            /\ queries' = qs
            /\ failure' = Some(ctx)
            /\ batch' = None
            /\ apc' = "failed"
    IN
    /\ apc = "idle"
    /\ request # None
    /\ response' = res
    /\ UNCHANGED request
    /\ ArchiveFrame
    /\ IF res = None
       THEN Fail(<<q>>, [kind |-> "archiveQuery", blockHeight |-> None, blockHash |-> None])
       ELSE
       LET lastBlock == The(res).nextBlock - 1
           wire == Flatten(The(res).data)
           bad == {i \in DOMAIN wire : ~tryMapGatewayBlock(wire[i]).ok}
       IN
       IF bad # {}
       THEN LET first == CHOOSE i \in bad : \A j \in bad : i <= j
                ctx == The(tryMapGatewayBlock(wire[first]).context)
            IN  Fail(<<q>>, [kind |-> "mapping",
                             blockHeight |-> Some(ctx.blockHeight),
                             blockHash |-> Some(ctx.blockHash)])
       ELSE
       LET blocks == SortBlocks([i \in DOMAIN wire |-> The(tryMapGatewayBlock(wire[i]).block)])
           range == [from |-> The(request).range.from, to |-> lastBlock]
           chainHeight == The(res).archiveHeight
       IN
       IF NeedsLastBlock(blocks, range.to)
       THEN LET h == fetchBlockHeader(headerRes)
                qs == <<q, HeaderQuery(range.to, fieldSelection)>>
            IN  IF h.ok
                THEN /\ queries' = qs
                     /\ batch' = Some([range |-> range,
                                       blocks |-> Append(blocks,
                                            [header |-> The(h.header), items |-> <<>>]),
                                       chainHeight |-> chainHeight])
                     /\ failure' = None
                     /\ apc' = "done"
                ELSE Fail(qs, [kind |-> "header", blockHeight |-> Some(range.to),
                               blockHash |-> None])
       ELSE /\ queries' = <<q>>
            /\ batch' = Some([range |-> range, blocks |-> blocks, chainHeight |-> chainHeight])
            /\ failure' = None
            /\ apc' = "done"

--------------------------------------------------------------------------
(* 5. Hot blocks: ChangeTracker and rollbackBlock                          *)
(*                                                                         *)
(* A table is a function from the ids of its rows to their other columns.  *)
(* Column values are the JavaScript values the driver returns for them,    *)
(* written as strings.  Table "item" has the text column `name`; table     *)
(* "blob" has a bytea column `bytes`, which the driver returns as a Buffer.*)

MaxOps == 2

MaxHotBlocks == 2

MaxEntities == 2

Tables == {"item", "blob"}

Ids(table) == IF table = "item" THEN {"1", "2"} ELSE {"1"}

\* A Buffer holding one byte
Buf == "Buffer<01>"

\* What JSON.stringify makes of Buf, read back from the jsonb column
JsonOfBuf == "{type:Buffer,data:[1]}"

\* A bytea value that is the text of a JSON object, and not the bytes it names
Garbled == "Buffer<{type:Buffer,...}>"

\* The rows (without id) the handlers write
RowInputs(table) ==
    IF table = "item" THEN [name : {"a", "b"}] ELSE [bytes : {Buf}]

EntityInputs(table) == [id : Ids(table), fields : RowInputs(table)]

\* JSON.parse(JSON.stringify(v)) of a column value: a Buffer has a toJSON
ThroughJSON(v) == IF v \in {Buf, Garbled} THEN JsonOfBuf ELSE v

\* A query parameter as the column receives it: an object goes as its JSON text
BindParam(v) == IF v = JsonOfBuf THEN Garbled ELSE v

\* The faulty variant that keeps every value as it is
JSONstringifyVerbatim(change) == change

\* JSON.stringify(change), as read back from hot_change_log.change
JSONstringify(change) ==
    IF change.fields = None THEN change
    ELSE [change EXCEPT !.fields =
            Some([c \in DOMAIN The(change.fields) |-> ThroughJSON(The(change.fields)[c])])]

\* fetchEntities: the rows of the table with one of the ids, in the order the
\* database returns them (`order`, a sequence of distinct ids)
fetchEntities(tables, table, ids, order) ==
    LET found == [i \in DOMAIN order |-> [id |-> order[i], fields |-> tables[table][order[i]]]]
    IN  found

\* The orders in which the database may return the rows with one of the ids
FetchOrders(tables, table, ids) ==
    LET hit == Range(ids) \cap DOMAIN tables[table]
    IN  {o \in DistinctSeqs(hit, Cardinality(hit)) : Len(o) = Cardinality(hit)}

trackInsertChanges(table, entities) ==
    [i \in DOMAIN entities |->
        [kind |-> "insert", table |-> table, id |-> entities[i].id, fields |-> None]]

\* The faulty variant that takes the columns of the entities being written
trackUpsertChangesNewValues(tables, table, entities) ==
    [i \in DOMAIN entities |->
        IF entities[i].id \in DOMAIN tables[table]
        THEN [kind |-> "update", table |-> table, id |-> entities[i].id,
              fields |-> Some(entities[i].fields)]
        ELSE [kind |-> "insert", table |-> table, id |-> entities[i].id, fields |-> None]]

trackUpsertChanges(tables, table, entities) ==
    [i \in DOMAIN entities |->
        IF entities[i].id \in DOMAIN tables[table]
        THEN [kind |-> "update", table |-> table, id |-> entities[i].id,
              fields |-> Some(tables[table][entities[i].id])]
        ELSE [kind |-> "insert", table |-> table, id |-> entities[i].id, fields |-> None]]

trackDeleteChanges(table, deletedEntities) ==
    [i \in DOMAIN deletedEntities |->
        [kind |-> "delete", table |-> table, id |-> deletedEntities[i].id,
         fields |-> Some(deletedEntities[i].fields)]]

\* writeChangeRows: the rows of the bulk insert, numbered from this.index
ChangeRows(trk, changes) ==
    {[block_height |-> trk.blockHeight,
      index |-> trk.index + (i - 1),
      change |-> JSONstringify(changes[i])] : i \in DOMAIN changes}

\* The primary key (block_height, index) of hot_change_log
SameKey(a, b) == a.block_height = b.block_height /\ a.index = b.index

KeyTaken(log, rows) == \E a \in log, b \in rows : SameKey(a, b)

\* The store's own writes, which follow the tracking call
StoreInsert(rows, entities) ==
    [id \in DOMAIN rows \cup {entities[i].id : i \in DOMAIN entities} |->
        IF \E i \in DOMAIN entities : entities[i].id = id
        THEN (CHOOSE e \in Range(entities) : e.id = id).fields
        ELSE rows[id]]

StoreDelete(rows, ids) ==
    [id \in DOMAIN rows \ Range(ids) |-> rows[id]]

\* One tracked store operation: the change rows are written, then the store
\* writes `newRows` to the table
TrackedWrite(op, table, ids, changes, newRows) ==
    LET trk == The(tracker)
        rows == ChangeRows(trk, changes)
    IN  /\ opsLeft' = opsLeft - 1
        /\ lastOp' = Some([op |-> op, table |-> table, ids |-> ids, changes |-> changes,
                           before |-> store[table], index |-> trk.index,
                           log |-> hot_change_log])
        /\ tracker' = Some([trk EXCEPT !.index = trk.index + Len(changes)])
        /\ UNCHANGED <<hot_block, snap, rolled, calls>>
        /\ HotFrame
        /\ IF KeyTaken(hot_change_log, rows)
           THEN /\ err' = "duplicate key in hot_change_log"
                /\ UNCHANGED <<store, hot_change_log>>
           ELSE /\ hot_change_log' = hot_change_log \cup rows
                /\ store' = [store EXCEPT ![table] = newRows]
                /\ UNCHANGED err

CanWrite == err = "none" /\ tracker # None /\ opsLeft > 0

\* store.insert: trackInsert, then INSERT (the ids are new to the table)
Insert(table, entities) ==
    /\ CanWrite
    /\ \A i \in DOMAIN entities : entities[i].id \notin DOMAIN store[table]
    /\ TrackedWrite("trackInsert", table, [i \in DOMAIN entities |-> entities[i].id],
                    trackInsertChanges(table, entities),
                    StoreInsert(store[table], entities))

\* store.save: trackUpsert, then the upsert
Upsert(table, entities) ==
    /\ CanWrite
    /\ TrackedWrite("trackUpsert", table, [i \in DOMAIN entities |-> entities[i].id],
                    trackUpsertChanges(store, table, entities),
                    StoreInsert(store[table], entities))

\* store.remove: trackDelete, then DELETE
Delete(table, ids) ==
    /\ CanWrite
    /\ \E order \in FetchOrders(store, table, ids) :
          TrackedWrite("trackDelete", table, ids,
                       trackDeleteChanges(table, fetchEntities(store, table, ids, order)),
                       StoreDelete(store[table], ids))

\* The change rows of a height, by descending index
RECURSIVE ByIndexDesc(_)
ByIndexDesc(rows) ==
    IF rows = {} THEN <<>>
    ELSE LET top == CHOOSE r \in rows : \A q \in rows : q.index <= r.index
         IN  <<top>> \o ByIndexDesc(rows \ {top})

\* The faulty variant that reads the change rows by ascending index
RECURSIVE ByIndexAsc(_)
ByIndexAsc(rows) ==
    IF rows = {} THEN <<>>
    ELSE LET low == CHOOSE r \in rows : \A q \in rows : r.index <= q.index
         IN  <<low>> \o ByIndexAsc(rows \ {low})

\* The faulty variant that selects the change rows of every height
SelectChangesAllHeights(log, blockHeight) ==
    ByIndexDesc(log)

\* The faulty variant that selects the change rows by ascending index
SelectChangesAscending(log, blockHeight) ==
    ByIndexAsc({r \in log : r.block_height = blockHeight})

SelectChanges(log, blockHeight) ==
    ByIndexDesc({r \in log : r.block_height = blockHeight})

\* One change record inverted: the tables afterwards, or the failed INSERT
InvertChange(tables, change) ==
    LET rows == tables[change.table]
        id == change.id
    IN  CASE change.kind = "insert" ->
                [ok |-> TRUE,
                 tables |-> [tables EXCEPT ![change.table] =
                                [i \in DOMAIN rows \ {id} |-> rows[i]]]]
          [] change.kind = "update" ->
                [ok |-> TRUE,
                 tables |->
                    IF DOMAIN The(change.fields) # {} /\ id \in DOMAIN rows
                    THEN [tables EXCEPT ![change.table][id] =
                            [c \in DOMAIN rows[id] |->
                                IF c \in DOMAIN The(change.fields)
                                THEN BindParam(The(change.fields)[c])
                                ELSE rows[id][c]]]
                    ELSE tables]
          [] change.kind = "delete" ->
                IF id \in DOMAIN rows
                THEN [ok |-> FALSE, tables |-> tables]
                ELSE [ok |-> TRUE,
                      tables |-> [tables EXCEPT ![change.table] =
                                    [i \in DOMAIN rows \cup {id} |->
                                        IF i = id
                                        THEN [c \in DOMAIN The(change.fields) |->
                                                BindParam(The(change.fields)[c])]
                                        ELSE rows[i]]]]

\* The loop of rollbackBlock over the selected rows
RECURSIVE InvertAll(_, _)
InvertAll(tables, changes) ==
    IF changes = <<>> THEN [ok |-> TRUE, tables |-> tables]
    ELSE LET one == InvertChange(tables, Head(changes).change)
         IN  IF one.ok THEN InvertAll(one.tables, Tail(changes)) ELSE one

\* rollbackBlock(statusSchema, em, blockHeight)
rollbackBlock(blockHeight) ==
    LET changes == SelectChanges(hot_change_log, blockHeight)
        done == InvertAll(store, changes)
    IN  IF done.ok
        THEN /\ store' = done.tables
             /\ hot_block' = SelectSeq(hot_block, LAMBDA h : h # blockHeight)
             /\ rolled' = rolled \cup {blockHeight}
             /\ UNCHANGED <<hot_change_log, err>>
        ELSE /\ err' = "duplicate key in rollback"
             /\ UNCHANGED <<store, hot_block, hot_change_log, rolled>>

\* The runner starts a hot block: the next height, a ChangeTracker of its own
BeginBlock ==
    /\ err = "none"
    /\ tracker = None
    /\ Len(hot_block) < MaxHotBlocks
    /\ LET h == Len(hot_block) + 1
       IN  /\ hot_block' = Append(hot_block, h)
           /\ tracker' = Some([blockHeight |-> h, index |-> 0])
           /\ snap' = [x \in 1..h |-> IF x = h THEN store ELSE snap[x]]
    /\ lastOp' = None
    /\ UNCHANGED <<store, hot_change_log, opsLeft, rolled, calls, err>>
    /\ HotFrame

\* The handler of the block returned and the block is committed
EndBlock ==
    /\ err = "none"
    /\ tracker # None
    /\ tracker' = None
    /\ lastOp' = None
    /\ UNCHANGED <<store, hot_block, hot_change_log, opsLeft, snap, rolled, calls, err>>
    /\ HotFrame

\* The runner, on a fork, rolls back the highest hot block
RollbackBlock ==
    /\ err = "none"
    /\ tracker = None
    /\ hot_block # <<>>
    /\ rollbackBlock(Last(hot_block))
    /\ UNCHANGED <<tracker, opsLeft, snap, lastOp, calls>>
    /\ HotFrame

--------------------------------------------------------------------------
(* 6. One ChangeTracker with track operations that are not awaited         *)
(*                                                                         *)
(* JavaScript runs a function to its next await without interruption, so   *)
(* an action is one such stretch: the call of an operation up to its first *)
(* await, or the continuation after the answer of a query.  The store is   *)
(* not written here: only the tracker's operations run.                    *)

MaxCalls == 2

\* A track operation as it was called: nothing emitted yet
NewCall(op, table, args) ==
    [op |-> op, table |-> table, args |-> args, pc |-> "called",
     indexAtCall |-> The(tracker).index, index |-> <<>>, rows |-> {}]

\* The faulty variant that counts from the value this.index had at the call
FirstIndexAtCall(trk, call) == call.indexAtCall

\* The value of this.index the loop of writeChangeRows counts from
FirstIndex(trk, call) == trk.index

\* writeChangeRows up to its await: the loop numbers the records from
\* this.index and advances it, then the INSERT is sent
writeChangeRows(trk, call, changes) ==
    LET first == FirstIndex(trk, call)
    IN  [call |-> [call EXCEPT
                    !.pc = "insert",
                    !.index = [i \in DOMAIN changes |-> first + (i - 1)],
                    !.rows = ChangeRows([trk EXCEPT !.index = first], changes)],
         tracker |-> [trk EXCEPT !.index = first + Len(changes)]]

CanTrack == err = "none" /\ tracker # None /\ Len(calls) < MaxCalls

TrackFrame ==
    /\ UNCHANGED <<store, hot_block, opsLeft, snap, rolled, lastOp>>
    /\ HotFrame

\* trackInsert: not async, it calls writeChangeRows at once
trackInsert(table, entities) ==
    /\ CanTrack
    /\ LET w == writeChangeRows(The(tracker),
                                NewCall("trackInsert", table, entities),
                                trackInsertChanges(table, entities))
       IN  /\ calls' = Append(calls, w.call)
           /\ tracker' = Some(w.tracker)
    /\ UNCHANGED <<hot_change_log, err>>
    /\ TrackFrame

\* trackUpsert up to `await this.fetchEntities(...)`
trackUpsert(table, entities) ==
    /\ CanTrack
    /\ calls' = Append(calls, [NewCall("trackUpsert", table, entities) EXCEPT !.pc = "select"])
    /\ UNCHANGED <<tracker, hot_change_log, err>>
    /\ TrackFrame

\* trackDelete up to `await this.fetchEntities(...)`
trackDelete(table, ids) ==
    /\ CanTrack
    /\ calls' = Append(calls, [NewCall("trackDelete", table, ids) EXCEPT !.pc = "select"])
    /\ UNCHANGED <<tracker, hot_change_log, err>>
    /\ TrackFrame

\* trackUpsert after its SELECT was answered, up to the await of writeChangeRows
trackUpsertResumed(k) ==
    /\ err = "none"
    /\ k \in DOMAIN calls
    /\ calls[k].op = "trackUpsert"
    /\ calls[k].pc = "select"
    /\ LET w == writeChangeRows(The(tracker), calls[k],
                                trackUpsertChanges(store, calls[k].table, calls[k].args))
       IN  /\ calls' = [calls EXCEPT ![k] = w.call]
           /\ tracker' = Some(w.tracker)
    /\ UNCHANGED <<hot_change_log, err>>
    /\ TrackFrame

\* trackDelete after its SELECT was answered, up to the await of writeChangeRows
trackDeleteResumed(k) ==
    /\ err = "none"
    /\ k \in DOMAIN calls
    /\ calls[k].op = "trackDelete"
    /\ calls[k].pc = "select"
    /\ \E order \in FetchOrders(store, calls[k].table, calls[k].args) :
        LET deleted == fetchEntities(store, calls[k].table, calls[k].args, order)
            w == writeChangeRows(The(tracker), calls[k],
                                 trackDeleteChanges(calls[k].table, deleted))
        IN  /\ calls' = [calls EXCEPT ![k] = w.call]
            /\ tracker' = Some(w.tracker)
    /\ UNCHANGED <<hot_change_log, err>>
    /\ TrackFrame

\* The database runs the INSERT of writeChangeRows and the operation resolves
ChangeRowsInserted(k) ==
    /\ err = "none"
    /\ k \in DOMAIN calls
    /\ calls[k].pc = "insert"
    /\ IF KeyTaken(hot_change_log, calls[k].rows)
       THEN /\ err' = "duplicate key in hot_change_log"
            /\ calls' = [calls EXCEPT ![k].pc = "rejected"]
            /\ UNCHANGED hot_change_log
       ELSE /\ hot_change_log' = hot_change_log \cup calls[k].rows
            /\ calls' = [calls EXCEPT ![k].pc = "resolved"]
            /\ UNCHANGED err
    /\ UNCHANGED tracker
    /\ TrackFrame

--------------------------------------------------------------------------
(* Specifications *)

FieldsIdle == userFields = None /\ masks = <<>>

ProcIdle ==
    /\ requests = <<>>
    /\ procFields = None
    /\ blockRange = None
    /\ src = None
    /\ running = FALSE
    /\ batchRequests = None
    /\ thrown = FALSE

ArchiveIdle ==
    /\ request = None
    /\ queries = <<>>
    /\ response = None
    /\ batch = None
    /\ failure = None
    /\ apc = "idle"

MapperIdle == wireBlock = None /\ mapped = None

HotIdle ==
    /\ store = <<>>
    /\ hot_block = <<>>
    /\ hot_change_log = {}
    /\ tracker = None
    /\ opsLeft = 0
    /\ snap = <<>>
    /\ rolled = {}
    /\ lastOp = None
    /\ calls = <<>>
    /\ err = "none"

\* The field selector applied to every user selection, and to its own result
InitFields ==
    /\ userFields \in {Some(f) : f \in FieldsDomain}
    /\ masks = <<>>
    /\ ProcIdle /\ ArchiveIdle /\ MapperIdle /\ HotIdle

NextFields ==
    \/ ApplyFieldSelector
    \/ ReapplyFieldSelector

SpecFields == InitFields /\ [][NextFields]_vars

\* A processor being configured and started
InitProc == ProcIdle /\ FieldsIdle /\ ArchiveIdle /\ MapperIdle /\ HotIdle

NextProc ==
    \/ \E f \in FieldsInputs : setFields(f)
    \/ \E o \in LogOptionInputs, r \in {None} \cup {Some(x) : x \in RangeInputs} :
          addLog(o, r)
    \/ \E o \in TransactionOptionInputs, r \in {None} \cup {Some(x) : x \in RangeInputs} :
          addTransaction(o, r)
    \/ setPrometheusPort
    \/ \E r \in {None} \cup {Some(x) : x \in RangeInputs} : includeAllBlocks(r)
    \/ \E r \in {None, Some([from |-> 1, to |-> Some(1)])} : setBlockRange(r)
    \/ \E ds \in DataSourceInputs : setDataSource(ds)
    \/ run

SpecProc == InitProc /\ [][NextProc]_vars

\* The wire blocks the mapper is applied to: every order of the transactions
\* and of the logs
WireBlockInputs ==
    {WireBlock(1, gas, txs, logs) :
        gas \in {None} \cup {Some(h) : h \in HexInputs},
        txs \in DistinctSeqs(WireTransactions, MaxTxs),
        logs \in {l \in SeqsUpTo(WireLogs, MaxLogs) :
                    \A i, j \in DOMAIN l : i # j => l[i].index # l[j].index}}

InitMapper ==
    /\ wireBlock \in {Some(w) : w \in WireBlockInputs}
    /\ mapped = None
    /\ FieldsIdle /\ ProcIdle /\ ArchiveIdle /\ HotIdle

NextMapper == MapBlock

SpecMapper == InitMapper /\ [][NextMapper]_vars

\* What a block of an archive answer may hold: nothing, a transaction, a log of
\* that transaction or of one that is left out, and a header BigInt() rejects
ArchiveBlockContents ==
    {[gas |-> None, transactions |-> <<>>, logs |-> <<>>],
     [gas |-> Some("0x5208"), transactions |-> <<[index |-> 2]>>,
      logs |-> <<[index |-> 0, transactionIndex |-> 2]>>],
     [gas |-> None, transactions |-> <<>>,
      logs |-> <<[index |-> 1, transactionIndex |-> 2],
                 [index |-> 0, transactionIndex |-> 1]>>],
     [gas |-> Some("0xzz"), transactions |-> <<>>, logs |-> <<>>]}

\* The flat block lists an answer for from..last may hold: any heights of the
\* range, each once, in any order
ArchiveBlockLists(from, last) ==
    UNION {
        {[i \in DOMAIN hs |->
            WireBlock(hs[i], c[i].gas, c[i].transactions, c[i].logs)]
         : c \in [DOMAIN hs -> ArchiveBlockContents]}
        : hs \in DistinctSeqs(from..last, last - from + 1)}

\* The same blocks as one inner list, or as one inner list per block
Chunkings(blocks) ==
    {<<blocks>>, [i \in DOMAIN blocks |-> <<blocks[i]>>]}

\* The answers of the archive to a query for from..to
ArchiveResponses(from, to) ==
    UNION {
        {[data |-> data, nextBlock |-> last + 1, archiveHeight |-> MaxBlock]
         : data \in UNION {Chunkings(b) : b \in ArchiveBlockLists(from, last)}}
        : last \in from..to}

\* The answers to the header query for one height: the block, a header that
\* does not parse, or no block
HeaderResponses(height) ==
    {[data |-> <<<<WireBlock(height, None, <<>>, <<>>)>>>>,
      nextBlock |-> height + 1, archiveHeight |-> MaxBlock],
     [data |-> <<<<WireBlock(height, Some("0xzz"), <<>>, <<>>)>>>>,
      nextBlock |-> height + 1, archiveHeight |-> MaxBlock],
     [data |-> <<>>, nextBlock |-> height + 1, archiveHeight |-> MaxBlock]}

\* The DataRequests handed to the archive
ArchiveRequestInputs ==
    LET logsOnly == [EmptyRequest EXCEPT !.logs =
                        Some(<<[address |-> Some(<<"0xa">>), filter |-> None]>>)]
        txOnly == [EmptyRequest EXCEPT !.transactions =
                        Some(<<[to |-> Some(<<"0xa">>), from |-> None, sighash |-> None]>>)]
        withLogTx == [NoSelection EXCEPT !.log["transaction"] = "true"]
    IN  {logsOnly,
         [logsOnly EXCEPT !.fields = Some(withLogTx)],
         [txOnly EXCEPT !.logs = logsOnly.logs, !.fields = Some(NoSelection)],
         [EmptyRequest EXCEPT !.includeAllBlocks = Some(TRUE)]}

InitArchive ==
    /\ request \in {Some([range |-> [from |-> f, to |-> Some(t)], request |-> r]) :
                        f \in 0..MaxBlock, t \in 0..MaxBlock, r \in ArchiveRequestInputs}
    /\ The(request).range.from <= The(The(request).range.to)
    /\ queries = <<>>
    /\ response = None
    /\ batch = None
    /\ failure = None
    /\ apc = "idle"
    /\ FieldsIdle /\ ProcIdle /\ MapperIdle /\ HotIdle

\* The outcomes of the header query that follows the answer `res`: it is
\* made only when `res` holds no block of the height nextBlock - 1
HeaderAnswers(res) ==
    IF res = None THEN {None}
    ELSE LET wire == Flatten(The(res).data)
             last == The(res).nextBlock - 1
         IN  IF \E i \in DOMAIN wire : wire[i].block.number = last
             THEN {None}
             ELSE {None} \cup {Some(r) : r \in HeaderResponses(last)}

\* One call of getFinalizedBatch, with every answer the archive may give
CallGetFinalizedBatch ==
    /\ apc = "idle"
    /\ request # None
    /\ \E res \in {None} \cup
                {Some(r) : r \in ArchiveResponses(The(request).range.from,
                                                  The(The(request).range.to))} :
        \E headerRes \in HeaderAnswers(res) :
            getFinalizedBatch(res, headerRes)

NextArchive == CallGetFinalizedBatch

SpecArchive == InitArchive /\ [][NextArchive]_vars

\* The entity lists and id lists of one store call: no id twice
EntityLists(table) ==
    {es \in SeqsUpTo(EntityInputs(table), MaxEntities) :
        \A i, j \in DOMAIN es : i # j => es[i].id # es[j].id}

IdLists(table) == DistinctSeqs(Ids(table), MaxEntities)

\* The tables before the first hot block
StoreInputs ==
    {[t \in Tables |-> <<>>],
     [t \in Tables |-> IF t = "item" THEN [i \in {"1"} |-> [name |-> "a"]]
                                     ELSE [i \in {"1"} |-> [bytes |-> Buf]]]}

InitHot ==
    /\ store \in StoreInputs
    /\ hot_block = <<>>
    /\ hot_change_log = {}
    /\ tracker = None
    /\ opsLeft = MaxOps
    /\ snap = <<>>
    /\ rolled = {}
    /\ lastOp = None
    /\ calls = <<>>
    /\ err = "none"
    /\ FieldsIdle /\ ProcIdle /\ ArchiveIdle /\ MapperIdle

NextHot ==
    \/ BeginBlock
    \/ \E t \in Tables : \E es \in EntityLists(t) : Insert(t, es)
    \/ \E t \in Tables : \E es \in EntityLists(t) : Upsert(t, es)
    \/ \E t \in Tables : \E ids \in IdLists(t) : Delete(t, ids)
    \/ EndBlock
    \/ RollbackBlock

SpecHot == InitHot /\ [][NextHot]_vars

\* The arguments of the track operations that are not awaited: rows of table
\* "item", none, one or two of them
TrackEntityLists ==
    {es \in EntityLists("item") : \A i \in DOMAIN es : es[i].fields.name = "a"}

\* A hot block being applied: its ChangeTracker is new
InitTrack ==
    /\ store \in StoreInputs
    /\ hot_block = <<1>>
    /\ hot_change_log = {}
    /\ tracker = Some([blockHeight |-> 1, index |-> 0])
    /\ opsLeft = 0
    /\ snap = <<>>
    /\ rolled = {}
    /\ lastOp = None
    /\ calls = <<>>
    /\ err = "none"
    /\ FieldsIdle /\ ProcIdle /\ ArchiveIdle /\ MapperIdle

NextTrack ==
    \/ \E es \in TrackEntityLists : trackInsert("item", es)
    \/ \E es \in TrackEntityLists : trackUpsert("item", es)
    \/ \E ids \in IdLists("item") : trackDelete("item", ids)
    \/ \E k \in 1..MaxCalls : trackUpsertResumed(k)
    \/ \E k \in 1..MaxCalls : trackDeleteResumed(k)
    \/ \E k \in 1..MaxCalls : ChangeRowsInserted(k)

SpecTrack == InitTrack /\ [][NextTrack]_vars

--------------------------------------------------------------------------
(* Properties of the field selector (SpecFields) *)

\* The fields a mask asks the archive for: an undefined entry is left out of
\* the JSON body, like an absent one
Selected(mask) ==
    {<<e, k>> : e \in {"block"}, k \in {x \in BlockKeys : mask.block[x] = "true"}}
    \cup {<<e, k>> : e \in {"transaction"},
                     k \in {x \in TransactionKeys : mask.transaction[x] = "true"}}
    \cup {<<e, k>> : e \in {"log"}, k \in {x \in LogKeys : mask.log[x] = "true"}}

\* The selection sets a default field outside the always-on ones to false
DisablesDefault(f) ==
    \/ f.block["timestamp"] = "false"
    \/ f.transaction["hash"] = "false"
    \/ f.log["data"] = "false"

\* C8: for every user field selection, also one that sets an always-on field to
\* false, the mask of toFieldSelection has block.hash, block.number,
\* transaction.index, log.index and log.transactionIndex set to true.
C8_AlwaysOnFields ==
    Len(masks) >= 1 =>
        /\ masks[1].block["hash"] = "true"
        /\ masks[1].block["number"] = "true"
        /\ masks[1].transaction["index"] = "true"
        /\ masks[1].log["index"] = "true"
        /\ masks[1].log["transactionIndex"] = "true"

C8_Witness ==
    /\ Len(masks) >= 1
    /\ The(userFields).block["hash"] = "false"
    /\ The(userFields).block["number"] = "false"
    /\ The(userFields).transaction["index"] = "false"
    /\ The(userFields).log["index"] = "false"
    /\ The(userFields).log["transactionIndex"] = "false"

\* C9 as stated: for every user field selection f, the field selector applied to
\* its own mask yields the same mask: fieldSelector(fieldSelector(f)) =
\* fieldSelector(f).
C9_Idempotent ==
    Len(masks) = 2 => Selected(masks[2]) = Selected(masks[1])

\* C9 amended: the second application selects the same fields as the first
\* exactly when f sets no default field outside the always-on ones to false; a
\* default field that f disables comes back in the second mask.
C9_IdempotentUnlessDefaultDisabled ==
    Len(masks) = 2 =>
        /\ ~DisablesDefault(The(userFields)) <=> Selected(masks[2]) = Selected(masks[1])
        /\ Selected(masks[1]) \subseteq Selected(masks[2])
        /\ \A p \in Selected(masks[2]) \ Selected(masks[1]) :
                DEFAULT_FIELDS[p[1]][p[2]] = "true" /\ The(userFields)[p[1]][p[2]] = "false"

C9_Witness ==
    /\ Len(masks) = 2
    /\ ~DisablesDefault(The(userFields))
    /\ The(userFields).transaction["gas"] = "true"
    /\ The(userFields).block["hash"] = "false"
    /\ The(userFields).log["transaction"] = "true"
    /\ Selected(masks[2]) = Selected(masks[1])

--------------------------------------------------------------------------
(* Properties of the request merger (SpecProc) *)

ListOf(o) == IF o = None THEN <<>> ELSE The(o)

\* The list `m` is `a` followed by `b`, and undefined rather than empty
IsConcat(m, a, b) ==
    /\ m # Some(<<>>)
    /\ Len(ListOf(m)) = Len(ListOf(a)) + Len(ListOf(b))
    /\ \A i \in DOMAIN ListOf(a) : ListOf(m)[i] = ListOf(a)[i]
    /\ \A i \in DOMAIN ListOf(b) : ListOf(m)[Len(ListOf(a)) + i] = ListOf(b)[i]

\* C10: merging two DataRequests a and b gives a's logs followed by b's, a's
\* transactions followed by b's, includeAllBlocks true exactly when it is true
\* in a or in b, and an undefined list (never an empty one) when both have none;
\* the fields of every request getBatchRequests returns are the processor-wide
\* setFields value, not those of a or b.
C10_Merge ==
    /\ \A i, j \in DOMAIN requests :
        LET a == requests[i].request
            b == requests[j].request
            m == merge(a, b)
        IN  /\ IsConcat(m.logs, a.logs, b.logs)
            /\ IsConcat(m.transactions, a.transactions, b.transactions)
            /\ m.includeAllBlocks \in {None, Some(TRUE)}
            /\ m.includeAllBlocks = Some(TRUE) <=>
                    (a.includeAllBlocks = Some(TRUE) \/ b.includeAllBlocks = Some(TRUE))
            /\ m.fields = None
    /\ batchRequests # None =>
        /\ \A k \in DOMAIN The(batchRequests) :
                The(batchRequests)[k].request.fields = procFields
        /\ (Len(requests) = 2 /\ requests[1].range = requests[2].range /\ blockRange = None) =>
                /\ Len(The(batchRequests)) = 1
                /\ IsConcat(The(batchRequests)[1].request.logs,
                            requests[1].request.logs, requests[2].request.logs)
                /\ IsConcat(The(batchRequests)[1].request.transactions,
                            requests[1].request.transactions,
                            requests[2].request.transactions)

C10_Witness ==
    /\ batchRequests # None
    /\ procFields # None
    /\ Len(requests) = 2
    /\ requests[1].range = requests[2].range
    /\ requests[1].request.logs # None
    /\ requests[2].request.logs # None
    /\ requests[1].request.logs # requests[2].request.logs
    /\ Len(The(batchRequests)) = 1
    /\ Len(ListOf(The(batchRequests)[1].request.logs)) = 2
    /\ The(batchRequests)[1].request.transactions = None
    /\ The(batchRequests)[1].request.fields = procFields

--------------------------------------------------------------------------
(* Properties of the gateway mapper (SpecMapper) *)

\* a is not behind b: by transaction index, then a transaction before a log,
\* then by log index
InOrder(a, b) ==
    LET txOf(x) == IF x.kind = "transaction" THEN The(x.transaction).index
                   ELSE The(x.log).transactionIndex
    IN  \/ txOf(a) < txOf(b)
        \/ /\ txOf(a) = txOf(b)
           /\ \/ a.kind = "transaction"
              \/ a.kind = "log" /\ b.kind = "log" /\ The(a.log).index <= The(b.log).index

MappedItems == The(The(mapped).block).items

\* C5: whatever the order in which the wire block lists its transactions and
\* logs, the items of the mapped block are sorted by transactionIndex, then
\* transactions before logs, then by log index.
C5_ItemOrder ==
    (mapped # None /\ The(mapped).ok) =>
        /\ Len(MappedItems) = Len(The(wireBlock).transactions) + Len(The(wireBlock).logs)
        /\ \A i, j \in DOMAIN MappedItems : i < j => InOrder(MappedItems[i], MappedItems[j])

C5_Witness ==
    /\ mapped # None
    /\ The(mapped).ok
    /\ Len(The(wireBlock).transactions) = 2
    /\ The(wireBlock).transactions[1].index > The(wireBlock).transactions[2].index
    /\ Len(The(wireBlock).logs) = 2
    /\ The(wireBlock).logs[1].transactionIndex > The(wireBlock).logs[2].transactionIndex
    /\ The(wireBlock).logs[1].index > The(wireBlock).logs[2].index

\* C6: a log item carries a transaction exactly when the wire block holds a
\* transaction with the log's transactionIndex; it is then that transaction,
\* which is also a transaction item placed before the log item.
C6_LogTransaction ==
    (mapped # None /\ The(mapped).ok) =>
        \A i \in DOMAIN MappedItems :
            MappedItems[i].kind = "log" =>
                LET it == MappedItems[i]
                    txi == The(it.log).transactionIndex
                IN  /\ it.transaction # None <=>
                            \E k \in DOMAIN The(wireBlock).transactions :
                                The(wireBlock).transactions[k].index = txi
                    /\ it.transaction # None =>
                        /\ The(it.transaction).index = txi
                        /\ \E j \in 1..(i - 1) :
                            /\ MappedItems[j].kind = "transaction"
                            /\ MappedItems[j].transaction = it.transaction

C6_Witness ==
    /\ mapped # None
    /\ The(mapped).ok
    /\ \E i, j \in DOMAIN MappedItems :
        /\ MappedItems[i].kind = "log"
        /\ MappedItems[j].kind = "log"
        /\ MappedItems[i].transaction # None
        /\ MappedItems[j].transaction = None
        /\ The(MappedItems[i].log).index # The(MappedItems[i].log).transactionIndex

--------------------------------------------------------------------------
(* Properties of getFinalizedBatch (SpecArchive) *)

BatchBlocks == The(batch).blocks

\* C3: every returned BatchResponse has a non-empty block list whose last block
\* has the height range.to, also when the archive returned no block at all.
C3_RangeClosure ==
    apc = "done" =>
        /\ BatchBlocks # <<>>
        /\ Last(BatchBlocks).header.height = The(batch).range.to

C3_Witness ==
    /\ apc = "done"
    /\ Flatten(The(response).data) = <<>>
    /\ The(response).nextBlock - 1 < The(The(request).range.to)
    /\ Len(BatchBlocks) = 1

\* C4: the blocks of every returned BatchResponse are in ascending height
\* order, also after the stub block of range.to was appended.
C4_AscendingHeights ==
    apc = "done" =>
        \A i, j \in DOMAIN BatchBlocks :
            i < j => BatchBlocks[i].header.height < BatchBlocks[j].header.height

C4_Witness ==
    /\ apc = "done"
    /\ Len(queries) = 2
    /\ Len(BatchBlocks) = 3
    /\ Flatten(The(response).data)[1].block.number > Flatten(The(response).data)[2].block.number

\* The case of C7: a log filter, no transaction filter, fields.log.transaction
\* not enabled, and an answer with a block holding transaction 2 and a log of it
LogsOnlyCase ==
    /\ apc = "done"
    /\ The(request).request.logs # None
    /\ The(request).request.transactions = None
    /\ \/ The(request).request.fields = None
       \/ The(The(request).request.fields).log["transaction"] # "true"
    /\ \E i \in DOMAIN Flatten(The(response).data) :
        LET w == Flatten(The(response).data)[i]
        IN  /\ \E k \in DOMAIN w.transactions : w.transactions[k].index = 2
            /\ \E k \in DOMAIN w.logs : w.logs[k].transactionIndex = 2

\* The log items of the batch that belong to transaction 2 of a block that
\* holds that transaction
JoinedLogItems ==
    {it \in UNION {Range(BatchBlocks[i].items) : i \in DOMAIN BatchBlocks} :
        /\ it.kind = "log"
        /\ The(it.log).transactionIndex = 2
        /\ \E i \in DOMAIN Flatten(The(response).data) :
            LET w == Flatten(The(response).data)[i]
            IN  /\ w.block.number = The(it.log).id[1]
                /\ \E k \in DOMAIN w.transactions : w.transactions[k].index = 2}

\* C7 as stated: with a log filter only and fields.log.transaction not enabled,
\* when the archive returns a block with transaction 2 and a log of
\* transaction 2, the emitted log item has no transaction reference.
C7_LogItemWithoutTransaction ==
    LogsOnlyCase => \A it \in JoinedLogItems : it.transaction = None

\* C7 amended: in that case the log sub-query is sent without the transaction
\* projection, and the emitted log item carries transaction 2 of its block: the
\* mapper joins on what the block holds, not on what the user asked for.
C7_LogItemCarriesTransaction ==
    LogsOnlyCase =>
        /\ \A k \in DOMAIN queries[1].logs : queries[1].logs[k].fieldSelection.transaction = None
        /\ JoinedLogItems # {}
        /\ \A it \in JoinedLogItems :
            /\ it.transaction # None
            /\ The(it.transaction).index = 2
            /\ The(it.transaction).id[1] = The(it.log).id[1]

C7_Witness ==
    /\ LogsOnlyCase
    /\ The(request).request.fields = None
    /\ JoinedLogItems # {}

--------------------------------------------------------------------------
(* Properties of the hot-block change log (SpecHot) *)

\* A step of rollbackBlock for the highest hot block: it ends with the block
\* removed or with an error
RollbackStep ==
    /\ err = "none"
    /\ tracker = None
    /\ hot_block # <<>>
    /\ Len(hot_block') < Len(hot_block) \/ err' # "none"

\* C1: after any tracked inserts, upserts and deletes of a block at height h,
\* rollbackBlock(h) restores every table to the rows and column values it had
\* before the block; rolling back several hot blocks in descending height
\* order restores the state before the lowest of them.
C1_RollbackRestores ==
    [][RollbackStep => (err' = "none" /\ store' = snap[Last(hot_block)])]_vars

\* C2: after block Y at height h was applied and rolled back, a replacement Z
\* at h with a fresh ChangeTracker (index from 0) has its change records
\* recorded, and a later rollbackBlock(h) undoes the writes of Z and no more.
C2_ReorgAtOneHeight ==
    /\ [][(err = "none" /\ tracker # None /\ The(tracker).blockHeight \in rolled)
            => err' = "none"]_vars
    /\ [][(RollbackStep /\ Last(hot_block) \in rolled)
            => (err' = "none" /\ store' = snap[Last(hot_block)])]_vars

--------------------------------------------------------------------------
(* Further properties of the processor configuration (SpecProc) *)

\* The two lists hold the same elements, each as often
SameElements(x, y) ==
    /\ Len(ListOf(x)) = Len(ListOf(y))
    /\ \A e \in Range(ListOf(x)) \cup Range(ListOf(y)) :
        Cardinality({i \in DOMAIN ListOf(x) : ListOf(x)[i] = e})
            = Cardinality({i \in DOMAIN ListOf(y) : ListOf(y)[i] = e})

\* The logs, transactions and includeAllBlocks of the two requests are the same
SameSelection(x, y) ==
    /\ x.logs = y.logs
    /\ x.transactions = y.transactions
    /\ x.includeAllBlocks = y.includeAllBlocks

\* C11 as stated: the batch requests built from a single registered request
\* are that same request.
C11_SingleRequestUnchanged ==
    (batchRequests # None /\ Len(requests) = 1) =>
        /\ Len(The(batchRequests)) = 1
        /\ The(batchRequests)[1].range = requests[1].range
        /\ SameSelection(The(batchRequests)[1].request, requests[1].request)

\* C11 amended: from a single registered request, getBatchRequests returns
\* that request's logs, transactions and includeAllBlocks with the processor's
\* fields, over the registered range cut to the setBlockRange bound (nothing
\* when the two do not meet); merge(a, b) and merge(b, a) agree up to the order
\* of the logs and of the transactions.
C11_MergeIdentity ==
    /\ (batchRequests # None /\ Len(requests) = 1) =>
        LET r == requests[1].range
            lo == IF blockRange = None \/ The(blockRange).from <= r.from
                  THEN r.from ELSE The(blockRange).from
            ends == (IF r.to = None THEN {} ELSE r.to)
                    \cup (IF blockRange = None THEN {} ELSE The(blockRange).to)
            hi == IF ends = {} THEN None
                  ELSE Some(CHOOSE e \in ends : \A x \in ends : e <= x)
            out == The(batchRequests)
        IN  IF hi # None /\ The(hi) < lo
            THEN out = <<>>
            ELSE /\ Len(out) = 1
                 /\ out[1].range = [from |-> lo, to |-> hi]
                 /\ SameSelection(out[1].request, requests[1].request)
                 /\ out[1].request.fields = procFields
    /\ \A i, j \in DOMAIN requests :
        LET ab == merge(requests[i].request, requests[j].request)
            ba == merge(requests[j].request, requests[i].request)
        IN  /\ SameElements(ab.logs, ba.logs)
            /\ SameElements(ab.transactions, ba.transactions)
            /\ ab.includeAllBlocks = ba.includeAllBlocks

C11_Witness ==
    /\ batchRequests # None
    /\ Len(requests) = 1
    /\ blockRange = Some([from |-> 1, to |-> Some(1)])
    /\ requests[1].range = [from |-> 0, to |-> None]
    /\ requests[1].request.logs # None
    /\ procFields # None
    /\ The(batchRequests)[1].range = [from |-> 1, to |-> Some(1)]
    /\ The(batchRequests)[1].request.logs = requests[1].request.logs

\* Every string of the optional list is its own lowercase form
AllLowercase(list) ==
    \A i \in DOMAIN ListOf(list) : toLowerCase(ListOf(list)[i]) = ListOf(list)[i]

\* C12: every address, topic and sighash the user passes to addLog or
\* addTransaction is registered in lowercase: the address and filter of a log
\* request and the to, from and sighash of a transaction request hold only
\* lowercase strings.
C12_LowercaseInputs ==
    \A r \in DOMAIN requests :
        /\ \A i \in DOMAIN ListOf(requests[r].request.logs) :
            LET l == ListOf(requests[r].request.logs)[i]
            IN  AllLowercase(l.address) /\ AllLowercase(l.filter)
        /\ \A i \in DOMAIN ListOf(requests[r].request.transactions) :
            LET t == ListOf(requests[r].request.transactions)[i]
            IN  AllLowercase(t.to) /\ AllLowercase(t.from) /\ AllLowercase(t.sighash)

\* C14: once run() was called, every call of a setter or of run throws the
\* settings error and leaves the requests, the fields, the block range and the
\* data source as they were; before run() no call throws it.
C14_FrozenAfterRun ==
    [][/\ running => (thrown' /\ UNCHANGED <<requests, procFields, blockRange, src, running>>)
       /\ ~running => ~thrown']_vars

C14_Witness ==
    /\ running
    /\ thrown
    /\ Len(requests) = 2
    /\ procFields # None
    /\ blockRange # None
    /\ src # None

--------------------------------------------------------------------------
(* Further properties of getFinalizedBatch (SpecArchive) *)

\* The user enabled fields.log.transaction
LogTransactionEnabled ==
    /\ The(request).request.fields # None
    /\ The(The(request).request.fields).log["transaction"] = "true"

\* C13: in the archive query of getFinalizedBatch every log sub-query carries
\* the transaction projection if and only if the user enabled
\* fields.log.transaction; otherwise its transaction projection is absent.
C13_LogTransactionProjection ==
    queries # <<>> =>
        /\ Len(queries[1].logs) = Len(ListOf(The(request).request.logs))
        /\ \A k \in DOMAIN queries[1].logs :
            LET sel == queries[1].logs[k].fieldSelection
            IN  /\ sel.transaction # None <=> LogTransactionEnabled
                /\ sel.transaction # None => The(sel.transaction)["index"] = "true"
                /\ sel.log # None

C13_Witness ==
    /\ queries # <<>>
    /\ LogTransactionEnabled
    /\ Len(queries[1].logs) = 1
    /\ queries[1].logs[1].fieldSelection.transaction # None

\* The heights of the blocks of the archive's answer
AnsweredHeights ==
    {Flatten(The(response).data)[i].block.number : i \in DOMAIN Flatten(The(response).data)}

\* The answer holds no block, or its highest block is not at nextBlock - 1
LastBlockMissing ==
    \/ AnsweredHeights = {}
    \/ \A h \in AnsweredHeights : h # The(response).nextBlock - 1

\* C15: the follow-up header query (fromBlock = toBlock = nextBlock - 1,
\* includeAllBlocks true) is issued exactly when the highest mapped block is
\* not at range.to = nextBlock - 1, at most once per batch, and the block
\* appended for it has no items; when the archive returned the block of
\* range.to there is no follow-up query and no stub.
C15_HeaderQuery ==
    (response # None /\ (failure = None \/ The(failure).kind = "header")) =>
        LET last == The(response).nextBlock - 1
        IN  /\ Len(queries) \in {1, 2}
            /\ Len(queries) = 2 <=> LastBlockMissing
            /\ Len(queries) = 2 =>
                /\ queries[2].fromBlock = last
                /\ queries[2].toBlock = Some(last)
                /\ queries[2].includeAllBlocks = TRUE
                /\ queries[2].logs = <<>>
            /\ apc = "done" =>
                /\ The(batch).range.to = last
                /\ Len(BatchBlocks) = Len(Flatten(The(response).data))
                                        + (IF LastBlockMissing THEN 1 ELSE 0)
                /\ LastBlockMissing =>
                    /\ Last(BatchBlocks).items = <<>>
                    /\ Last(BatchBlocks).header.height = last
                /\ {BatchBlocks[i].header.height : i \in DOMAIN BatchBlocks}
                        = AnsweredHeights \cup {last}

C15_Witness ==
    /\ apc = "done"
    /\ Len(queries) = 2
    /\ AnsweredHeights # {}
    /\ The(response).nextBlock - 1 \notin AnsweredHeights
    /\ Len(BatchBlocks) = Cardinality(AnsweredHeights) + 1
    /\ Last(BatchBlocks).items = <<>>
    /\ \E i \in DOMAIN BatchBlocks : BatchBlocks[i].items # <<>>

\* The positions of the answered blocks whose mapping throws
FailingBlocks ==
    {i \in DOMAIN Flatten(The(response).data) :
        mapGatewayBlockHeaderThrows(Flatten(The(response).data)[i].block)}

\* C21: if the mapping of any one block of the archive's answer fails,
\* getFinalizedBatch fails as a whole: no BatchResponse is returned, not even
\* one without that block, no follow-up header query is issued, and the error
\* carries the blockHeight and blockHash of the block whose mapping failed
\* (the first such block of the answer, at which the loop stops).
C21_MappingFailureIsFatal ==
    (response # None /\ apc # "idle" /\ FailingBlocks # {}) =>
        LET wire == Flatten(The(response).data)
            first == CHOOSE i \in FailingBlocks : \A j \in FailingBlocks : i <= j
        IN  /\ apc = "failed"
            /\ batch = None
            /\ Len(queries) = 1
            /\ failure # None
            /\ The(failure).kind = "mapping"
            /\ The(failure).blockHeight = Some(wire[first].block.number)
            /\ The(failure).blockHash = Some(wire[first].block.hash)

\* A block that maps well comes before the failing one, and the block of
\* nextBlock - 1 is not in the answer
C21_Witness ==
    /\ apc = "failed"
    /\ response # None
    /\ Len(Flatten(The(response).data)) = 2
    /\ FailingBlocks = {2}
    /\ LastBlockMissing
    /\ The(failure).kind = "mapping"
    /\ batch = None

--------------------------------------------------------------------------
(* Further properties of the hot-block change log (SpecHot) *)

\* The change rows of a height in the side log
RowsOf(h) == {r \in hot_change_log : r.block_height = h}

\* C16: within one ChangeTracker, after awaited track operations that emitted
\* n records in total, the side log holds exactly n rows for the tracker's
\* height, with the indexes 0..n-1 in emission order, each operation having
\* appended its records in one bulk insert.
C16_TrackerIndexes ==
    (tracker # None /\ err = "none") =>
        LET h == The(tracker).blockHeight
            n == The(tracker).index
        IN  /\ Cardinality(RowsOf(h)) = n
            /\ {r.index : r \in RowsOf(h)} = 0..(n - 1)
            /\ lastOp # None =>
                LET op == The(lastOp)
                IN  /\ n = op.index + Len(op.changes)
                    /\ hot_change_log \ op.log =
                        {[block_height |-> h, index |-> op.index + (i - 1),
                          change |-> JSONstringify(op.changes[i])] : i \in DOMAIN op.changes}

\* C17: trackUpsert emits one record per input row, in input order: an
\* 'update' with the non-id columns the row had before the write when the
\* table held a row of that id, an 'insert' when it held none.
C17_UpsertRecords ==
    (lastOp # None /\ The(lastOp).op = "trackUpsert") =>
        LET op == The(lastOp)
        IN  /\ Len(op.changes) = Len(op.ids)
            /\ \A i \in DOMAIN op.ids :
                /\ op.changes[i].id = op.ids[i]
                /\ op.changes[i].table = op.table
                /\ IF op.ids[i] \in DOMAIN op.before
                   THEN /\ op.changes[i].kind = "update"
                        /\ op.changes[i].fields = Some(op.before[op.ids[i]])
                   ELSE /\ op.changes[i].kind = "insert"
                        /\ op.changes[i].fields = None

C17_Witness ==
    /\ lastOp # None
    /\ err = "none"
    /\ The(lastOp).op = "trackUpsert"
    /\ Len(The(lastOp).ids) = 2
    /\ \E i, j \in DOMAIN The(lastOp).changes :
        /\ The(lastOp).changes[i].kind = "update"
        /\ The(lastOp).changes[j].kind = "insert"
        /\ store[The(lastOp).table][The(lastOp).ids[i]] # The(lastOp).before[The(lastOp).ids[i]]

\* C18: trackDelete emits one 'delete' record with the full pre-image for each
\* requested id the table holds and none for an id it does not hold, so a
\* rollback of the block never inserts a row that was not there before it.
C18_DeleteRecords ==
    /\ []((lastOp # None /\ The(lastOp).op = "trackDelete") =>
            LET op == The(lastOp)
                hit == Range(op.ids) \cap DOMAIN op.before
            IN  /\ Len(op.changes) = Cardinality(hit)
                /\ {op.changes[i].id : i \in DOMAIN op.changes} = hit
                /\ \A i \in DOMAIN op.changes :
                    /\ op.changes[i].kind = "delete"
                    /\ op.changes[i].table = op.table
                    /\ op.changes[i].fields = Some(op.before[op.changes[i].id]))
    /\ [][(RollbackStep /\ err' = "none") =>
            \A t \in Tables : DOMAIN store'[t] \subseteq DOMAIN snap[Last(hot_block)][t]]_vars

\* One record inverted as C19 words it: an insert by deleting the row, an
\* update by restoring the recorded columns, a delete by re-inserting the
\* recorded row (which fails when the id is taken)
Undo(tables, change) ==
    LET rows == tables[change.table]
        recorded == [c \in DOMAIN The(change.fields) |-> BindParam(The(change.fields)[c])]
    IN  IF change.kind = "insert"
        THEN [ok |-> TRUE,
              tables |-> [tables EXCEPT ![change.table] =
                            [i \in DOMAIN rows \ {change.id} |-> rows[i]]]]
        ELSE IF change.kind = "update"
        THEN [ok |-> TRUE,
              tables |-> IF change.id \in DOMAIN rows
                         THEN [tables EXCEPT ![change.table][change.id] = recorded]
                         ELSE tables]
        ELSE IF change.id \in DOMAIN rows
        THEN [ok |-> FALSE, tables |-> tables]
        ELSE [ok |-> TRUE,
              tables |-> [tables EXCEPT ![change.table] =
                            [i \in DOMAIN rows \cup {change.id} |->
                                IF i = change.id THEN recorded ELSE rows[i]]]]

\* The records undone one by one, the highest index of those left first
RECURSIVE UndoFromHighest(_, _)
UndoFromHighest(tables, rows) ==
    IF rows = {} THEN [ok |-> TRUE, tables |-> tables]
    ELSE LET top == CHOOSE r \in rows : \A q \in rows \ {r} : q.index < r.index
             one == Undo(tables, top.change)
         IN  IF one.ok THEN UndoFromHighest(one.tables, rows \ {top}) ELSE one

\* C19: rollbackBlock(h) inverts the change records of height h in strictly
\* descending index order (an insert by deleting the row, an update by
\* restoring the recorded columns, a delete by re-inserting the recorded row)
\* and removes the hot_block row of h only after every record was inverted.
C19_DescendingInversion ==
    [][RollbackStep =>
        LET h == Last(hot_block)
            undone == UndoFromHighest(store, RowsOf(h))
        IN  IF undone.ok
            THEN /\ store' = undone.tables
                 /\ hot_block' = SubSeq(hot_block, 1, Len(hot_block) - 1)
                 /\ err' = "none"
            ELSE /\ err' # "none"
                 /\ store' = store
                 /\ hot_block' = hot_block]_vars

\* A block whose records undo each other's rows was rolled back
C19_Witness ==
    /\ err = "none"
    /\ hot_block = <<>>
    /\ rolled = {1}
    /\ \E a, b \in RowsOf(1) :
        /\ a.index = 0 /\ b.index = 1
        /\ a.change.table = b.change.table
        /\ a.change.id = b.change.id
        /\ a.change.kind = "update" /\ b.change.kind = "update"
        /\ a.change.fields # b.change.fields
        /\ store[a.change.table][a.change.id] = The(a.change.fields)

\* C20: once rollbackBlock(h) has completed, hot_change_log holds no change
\* record of height h, so the records of a rolled-back block are not replayed
\* by a later rollback of the same height.
C20_RecordsConsumed ==
    [][(RollbackStep /\ err' = "none") =>
        {r \in hot_change_log' : r.block_height = Last(hot_block)} = {}]_vars

\* The row of table t with the id, or None
RowAt(tables, t, id) ==
    IF id \in DOMAIN tables[t] THEN Some(tables[t][id]) ELSE None

\* A change record of height h names the row
NamedBy(h, t, id) ==
    \E r \in RowsOf(h) : r.change.table = t /\ r.change.id = id

\* C22: rollbackBlock(h) changes only the rows named by the change records of
\* height h and the hot_block row of height h: the change records and the
\* hot_block rows of every other height, and the store rows that no record of
\* height h names, are left as they were.
C22_RollbackFrame ==
    [][RollbackStep =>
        LET h == Last(hot_block)
        IN  /\ {r \in hot_change_log' : r.block_height # h}
                    = {r \in hot_change_log : r.block_height # h}
            /\ SelectSeq(hot_block', LAMBDA x : x # h)
                    = SelectSeq(hot_block, LAMBDA x : x # h)
            /\ \A t \in Tables : \A id \in Ids(t) :
                    ~NamedBy(h, t, id) => RowAt(store', t, id) = RowAt(store, t, id)]_vars

\* Block 2 was rolled back over block 1: a row that block 1 wrote and no record
\* of block 2 names is in the store, beside the records and the hot_block row
\* of block 1
C22_Witness ==
    /\ err = "none"
    /\ hot_block = <<1>>
    /\ rolled = {2}
    /\ RowsOf(2) # {}
    /\ \E r \in RowsOf(1) :
        /\ r.change.kind = "insert"
        /\ ~NamedBy(2, r.change.table, r.change.id)
        /\ r.change.id \in DOMAIN store[r.change.table]
        /\ snap[2] # snap[1]
        /\ store = snap[2]

--------------------------------------------------------------------------
(* Properties of track operations that are not awaited (SpecTrack) *)

\* The records emitted so far: the operation and the position in its list
Emitted ==
    UNION {{<<k, i>> : i \in DOMAIN calls[k].index} : k \in DOMAIN calls}

\* C23: when several track operations are started on one ChangeTracker without
\* awaiting the previous one, under every interleaving of their suspension
\* points all emitted records receive pairwise distinct index values, so no
\* two rows of the side log share the key (block_height, index) and no bulk
\* insert is rejected for it.
C23_DistinctIndexes ==
    /\ \A a, b \in Emitted :
            a # b => calls[a[1]].index[a[2]] # calls[b[1]].index[b[2]]
    /\ \A r, q \in hot_change_log : SameKey(r, q) => r = q
    /\ \A k \in DOMAIN calls :
        /\ calls[k].pc # "rejected"
        /\ {r.index : r \in calls[k].rows} = Range(calls[k].index)
        /\ calls[k].pc = "resolved" => calls[k].rows \subseteq hot_change_log
    /\ tracker # None => \A e \in Emitted : calls[e[1]].index[e[2]] < The(tracker).index

\* A trackUpsert waited for its SELECT while a trackInsert was called and got
\* the lower indexes; both have written their rows
C23_Witness ==
    /\ Len(calls) = 2
    /\ calls[1].op = "trackUpsert" /\ calls[2].op = "trackInsert"
    /\ calls[1].pc = "resolved" /\ calls[2].pc = "resolved"
    /\ calls[1].indexAtCall = calls[2].indexAtCall
    /\ Len(calls[1].index) = 2 /\ Len(calls[2].index) = 2
    /\ calls[2].index[2] < calls[1].index[1]
    /\ Cardinality(hot_change_log) = 4

==========================================================================
